---------------------------- MODULE Spec2Model ----------------------------
(***************************************************************************)
(* Model of the NETCONF filter compiler of netopeer2, src/src/common.c:    *)
(* op_filter_create and the subtree-filter-to-XPath translation below it.  *)
(*                                                                         *)
(* C strings are sequences of one-character strings; a buffer keeps the    *)
(* integer size the code tracks beside the characters it holds.  Every     *)
(* malloc/realloc of the buffers, of the filter list and of the module     *)
(* array is an allocation point that may fail.                             *)
(***************************************************************************)
EXTENDS Integers, Sequences, FiniteSets, TLC

VARIABLES filter_node,    \* the request: attributes and anydata value
          pc,             \* position inside op_filter_create
          elems,          \* top-level elements still to be compiled
          filters,        \* char **filters: sequence of [id, s]
          filter_count,   \* int filter_count
          heap,           \* per path buffer: how often stored / freed
          filters_freed,  \* TRUE once the error path freed the filter array
          oom,            \* TRUE once some allocation has failed
          ret,            \* return value of op_filter_create
          left,           \* the top-level elements gone through, as the walk left them
          run,            \* 1 in the first call on the tree, 2 in the second
          first,          \* the strings the first call gave
          exact           \* FALSE once a builder's size was not length + 1

vars == <<filter_node, pc, elems, filters, filter_count, heap, filters_freed, oom, ret,
          left, run, first, exact>>

(***************************************************************************)
(* Bounds of the model.                                                    *)
(***************************************************************************)
MaxNodes == 3      \* elements of a filter forest over the full label set
MaxAttrs == 2      \* attributes of an element in the attribute family
MaxReqAttrs == 2   \* attributes of the <filter> node

(***************************************************************************)
(* Strings.                                                                *)
(***************************************************************************)
NULL == <<"NULL">>          \* the null char pointer (no string has this shape)

NoNs == "none"              \* elem->ns == NULL
BaseNs == "urn:ietf:params:xml:ns:netconf:base:1.0"

isspace(c) == c \in {" ", "\n", "\t"}

RECURSIVE strws(_)
strws(str) ==
    IF str = <<>> THEN TRUE
    ELSE IF ~isspace(Head(str)) THEN FALSE
    ELSE strws(Tail(str))

strchr(str, c) == \E k \in DOMAIN str : str[k] = c

\* sprintf(buf + off, text): text is written from offset off on; the
\* characters before it stay, a gap would hold indeterminate bytes.
sprintf(s, off, text) ==
    [k \in 1..(off + Len(text)) |->
        IF k > off THEN text[k - off]
        ELSE IF k <= Len(s) THEN s[k] ELSE "?"]

(***************************************************************************)
(* The schema context: the modules in iteration order, each with its       *)
(* namespace and the names of its top-level schema nodes.                  *)
(***************************************************************************)
Modules ==
    << [name |-> <<"m">>,      ns |-> "ns1", nodes |-> {<<"a">>}],
       [name |-> <<"n", "n">>, ns |-> "ns2", nodes |-> {<<"a">>, <<"b", "c">>}] >>

\* ly_ctx_get_module_by_ns: the index of the module, 0 for NULL
ly_ctx_get_module_by_ns(ns) ==
    IF \E i \in DOMAIN Modules : Modules[i].ns = ns
    THEN CHOOSE i \in DOMAIN Modules : Modules[i].ns = ns
    ELSE 0

(***************************************************************************)
(* Allocation.  S is the state the compiler threads through its calls:     *)
(*   filters, filter_count   the output list                               *)
(*   heap                    heap[id] = [stored, freed] of path buffer id  *)
(*   n, fail                 allocations made so far; the fail-th fails    *)
(*   oom                     an allocation has failed                      *)
(*   exact                   every append so far began at the terminator,  *)
(*                           offset size - 1, and left size = length + 1   *)
(***************************************************************************)
NullBuf == [id |-> 0, s |-> <<>>, cap |-> 0]

AllocOK(S) == S.n + 1 # S.fail

Alloc(S) == [S EXCEPT !.n = @ + 1, !.oom = @ \/ (S.n + 1 = S.fail)]

\* malloc of a new path buffer (also realloc(NULL, size))
NewBuf(S) == [S EXCEPT !.heap = Append(@, [stored |-> 0, freed |-> 0])]

free(S, buf) ==
    IF buf.id = 0 THEN S
    ELSE [S EXCEPT !.heap[buf.id].freed = @ + 1]

(***************************************************************************)
(* A builder works on B = [S, buf, size]: the state, the buffer *buf and   *)
(* the size the code tracks for it.  It returns B with size as the code    *)
(* returns it: the new size, 0 (nothing can match) or -1 (out of memory).  *)
(***************************************************************************)
\* realloc(*buf, new_size) returned NULL
Fail(B) == [S |-> Alloc(B.S), buf |-> B.buf, size |-> -1]

\* realloc(*buf, new_size) succeeded; sprintf((*buf) + (size - 1), text)
Grow(B, new_size, text) ==
    [S |-> [(IF B.buf.id = 0 THEN NewBuf(Alloc(B.S)) ELSE Alloc(B.S))
                EXCEPT !.exact = @ /\ B.size - 1 = Len(B.buf.s)
                                   /\ new_size = B.size + Len(text)],
     buf |-> [id |-> IF B.buf.id = 0 THEN Len(B.S.heap) + 1 ELSE B.buf.id,
              s |-> sprintf(B.buf.s, B.size - 1, text),
              cap |-> new_size],
     size |-> new_size]

(***************************************************************************)
(* The filter list.                                                        *)
(***************************************************************************)
\* (variant: the new filter goes to the front of the list)
op_filter_xpath_add_filter_Front(S, new_filter) ==
    IF ~AllocOK(S) THEN [S |-> Alloc(S), ret |-> -1]
    ELSE [S |-> [Alloc(S) EXCEPT !.filter_count = @ + 1,
                                 !.filters = <<[id |-> new_filter.id, s |-> new_filter.s]>> \o @,
                                 !.heap[new_filter.id].stored = @ + 1],
          ret |-> 0]

\* op_filter_xpath_add_filter: [S, ret]
op_filter_xpath_add_filter(S, new_filter) ==
    IF ~AllocOK(S) THEN [S |-> Alloc(S), ret |-> -1]
    ELSE [S |-> [Alloc(S) EXCEPT !.filter_count = @ + 1,
                                 !.filters = Append(@, [id |-> new_filter.id, s |-> new_filter.s]),
                                 !.heap[new_filter.id].stored = @ + 1],
          ret |-> 0]

(***************************************************************************)
(* The attribute predicates.                                               *)
(***************************************************************************)
AttrText(module_name, next) ==
    <<"[", "@">> \o module_name \o <<":">> \o next.name \o <<"=", "'">> \o next.value \o <<"'", "]">>

AttrSize(size, module_name, next) ==
    size + 2 + Len(module_name) + 1 + Len(next.name) + 2 + Len(next.value) + 2

\* (variant: the attribute's type is not looked at)
AttrModule_AnyType(next) ==
    IF next.ns # NoNs THEN ly_ctx_get_module_by_ns(next.ns) ELSE 0

\* the module of a standard attribute's namespace, 0 when it has none
AttrModule(next) ==
    IF next.type = "STD" /\ next.ns # NoNs THEN ly_ctx_get_module_by_ns(next.ns) ELSE 0

RECURSIVE attrs_loop(_, _, _)
attrs_loop(B, attr, i) ==
    IF i > Len(attr) THEN B
    ELSE IF AttrModule(attr[i]) = 0
    THEN \* attribute without namespace or with unknown one
         attrs_loop(B, attr, i + 1)
    ELSE IF ~AllocOK(B.S) THEN Fail(B)
    ELSE attrs_loop(Grow(B, AttrSize(B.size, Modules[AttrModule(attr[i])].name, attr[i]),
                            AttrText(Modules[AttrModule(attr[i])].name, attr[i])),
                    attr, i + 1)

filter_xpath_buf_add_attrs(B, attr) == attrs_loop(B, attr, 1)

(***************************************************************************)
(* The content literal.                                                    *)
(***************************************************************************)
RECURSIVE SkipLeading(_)
SkipLeading(s) == IF s # <<>> /\ isspace(Head(s)) THEN SkipLeading(Tail(s)) ELSE s

RECURSIVE SkipTrailing(_)
SkipTrailing(s) ==
    IF s # <<>> /\ isspace(s[Len(s)]) THEN SkipTrailing(SubSeq(s, 1, Len(s) - 1)) ELSE s

\* filter_xpath_buf_get_content: the content without leading and trailing
\* whitespace (the contents of the model hold no XML prefix to convert)
filter_xpath_buf_get_content(elem) == SkipTrailing(SkipLeading(elem.content))

TopContentText(elem_module_name, name, content) ==
    <<"/">> \o elem_module_name \o <<":">> \o name
        \o <<"[", "t", "e", "x", "t", "(", ")", "=", "'">> \o content \o <<"'", "]">>

TopContentSize(elem_module_name, name, content) ==
    1 + Len(elem_module_name) + 1 + Len(name) + 9 + Len(content) + 3

\* after op_filter_xpath_add_filter(buf, ...)
top_content_stored(f, buf) ==
    IF f.ret # 0 THEN [S |-> free(f.S, buf), ret |-> -1]
    ELSE [S |-> f.S, ret |-> 0]

\* after filter_xpath_buf_add_attrs
top_content_attrs(B) ==
    IF B.size = 0 THEN [S |-> free(B.S, B.buf), ret |-> 0]
    ELSE IF B.size < 1 THEN [S |-> free(B.S, B.buf), ret |-> -1]
    ELSE top_content_stored(op_filter_xpath_add_filter(B.S, B.buf), B.buf)

\* filter_xpath_buf_add_top_content: [S, ret]
filter_xpath_buf_add_top_content(S, elem, elem_module_name) ==
    IF ~AllocOK(S) THEN [S |-> Alloc(S), ret |-> -1]
    ELSE top_content_attrs(
            filter_xpath_buf_add_attrs(
                Grow([S |-> S, buf |-> NullBuf, size |-> 1],
                     TopContentSize(elem_module_name, elem.name, filter_xpath_buf_get_content(elem)),
                     TopContentText(elem_module_name, elem.name, filter_xpath_buf_get_content(elem))),
                elem.attr))

(***************************************************************************)
(* Steps and content predicates.                                           *)
(***************************************************************************)
NoModule == <<"NOMODULE">>

\* the module name an element is qualified with: the one given, or the
\* module of its own namespace when that differs from last_ns; NoModule
\* when that namespace is unknown
Qualifier(elem, elem_module_name, last_ns) ==
    IF elem_module_name = NULL /\ elem.ns # NoNs /\ elem.ns # last_ns /\ elem.ns # BaseNs
    THEN IF ly_ctx_get_module_by_ns(elem.ns) = 0 THEN NoModule
         ELSE Modules[ly_ctx_get_module_by_ns(elem.ns)].name
    ELSE elem_module_name

NameText(open, q, name) ==
    <<open>> \o (IF q # NULL THEN q \o <<":">> ELSE <<>>) \o name

\* (variant: the character that opens the step is not counted)
NameSize_NoOpen(size, q, name) ==
    size + (IF q # NULL THEN Len(q) + 1 ELSE 0) + Len(name)

NameSize(size, q, name) ==
    size + 1 + (IF q # NULL THEN Len(q) + 1 ELSE 0) + Len(name)

ContentText(content) ==
    <<"=", IF strchr(content, "'") THEN "\"" ELSE "'">> \o content
        \o <<IF strchr(content, "'") THEN "\"" ELSE "'", "]">>

\* filter_xpath_buf_add_content after its filter_xpath_buf_add_attrs
add_content_value(B, elem) ==
    IF B.size < 1 THEN B
    ELSE IF ~AllocOK(B.S) THEN Fail(B)
    ELSE Grow(B, B.size + 2 + Len(filter_xpath_buf_get_content(elem)) + 2,
              ContentText(filter_xpath_buf_get_content(elem)))

filter_xpath_buf_add_content(B, elem, elem_module_name, last_ns) ==
    IF Qualifier(elem, elem_module_name, last_ns) = NoModule THEN [B EXCEPT !.size = 0]
    ELSE IF ~AllocOK(B.S) THEN Fail(B)
    ELSE add_content_value(
            filter_xpath_buf_add_attrs(
                Grow(B, NameSize(B.size, Qualifier(elem, elem_module_name, last_ns), elem.name),
                     NameText("[", Qualifier(elem, elem_module_name, last_ns), elem.name)),
                elem.attr),
            elem)

filter_xpath_buf_add_node(B, elem, elem_module_name, last_ns) ==
    IF Qualifier(elem, elem_module_name, last_ns) = NoModule THEN [B EXCEPT !.size = 0]
    ELSE IF ~AllocOK(B.S) THEN Fail(B)
    ELSE filter_xpath_buf_add_attrs(
            Grow(B, NameSize(B.size, Qualifier(elem, elem_module_name, last_ns), elem.name),
                 NameText("/", Qualifier(elem, elem_module_name, last_ns), elem.name)),
            elem.attr)

(***************************************************************************)
(* The subtree walker.  filter_xpath_buf_add returns [S, ret, buf]: buf is *)
(* the caller's *buf afterwards (NullBuf once the buffer was handed on).   *)
(***************************************************************************)
IsContentMatch(child) ==
    child.child = <<>> /\ child.content # NULL /\ ~strws(child.content)

\* (variant: the terminal case is never taken)
OnlyContentMatch_Never(elem) == FALSE

OnlyContentMatch(elem) == \A i \in DOMAIN elem.child : IsContentMatch(elem.child[i])

\* buf_new = malloc(size) succeeded; memcpy(buf_new, *buf, size)
CloneBuf(B) ==
    [S |-> [NewBuf(Alloc(B.S)) EXCEPT !.exact = @ /\ B.size = Len(B.buf.s) + 1],
     buf |-> [id |-> Len(B.S.heap) + 1, s |-> sprintf(B.buf.s, B.size - 1, <<>>), cap |-> B.size],
     size |-> B.size]

\* the first loop: fold the content match children into the buffer
RECURSIVE content_loop(_, _, _, _, _)
content_loop(B, elem, i, elem_module_name, last_ns) ==
    IF i > Len(elem.child) \/ B.size < 1 THEN B
    ELSE IF ~IsContentMatch(elem.child[i])
    THEN content_loop(B, elem, i + 1, elem_module_name, last_ns)
    ELSE content_loop(filter_xpath_buf_add_content(B, elem.child[i], elem_module_name, last_ns),
                      elem, i + 1, elem_module_name, last_ns)

RECURSIVE filter_xpath_buf_add(_, _, _, _)
RECURSIVE add_after_node(_, _, _, _)
RECURSIVE add_after_content(_, _, _)
RECURSIVE branch_loop(_, _, _, _)
RECURSIVE branch_child(_, _, _, _, _)
RECURSIVE branch_leaf(_, _, _, _, _, _)
RECURSIVE branch_stored(_, _, _, _, _, _)

\* after op_filter_xpath_add_filter(*buf, ...) of a terminal branch
add_only_content(f, buf) ==
    IF f.ret # 0 THEN [S |-> free(f.S, buf), ret |-> -1, buf |-> buf]
    ELSE [S |-> f.S, ret |-> 0, buf |-> NullBuf]

\* the second loop, child j: the last child takes *buf, the others a copy
branch_loop(B, elem, j, last_ns) ==
    IF j > Len(elem.child) THEN [S |-> B.S, ret |-> 0, buf |-> B.buf]
    ELSE IF j = Len(elem.child) THEN branch_child(B, NullBuf, elem, j, last_ns)
    ELSE IF ~AllocOK(B.S) THEN [S |-> free(Alloc(B.S), B.buf), ret |-> -1, buf |-> B.buf]
    ELSE branch_child(CloneBuf(B), B.buf, elem, j, last_ns)

\* Bn holds buf_new, buf is the caller's *buf from here on
branch_child(Bn, buf, elem, j, last_ns) ==
    IF elem.child[j].child # <<>>
    THEN \* child containment node: what the call returns is not looked at
         branch_loop([S |-> filter_xpath_buf_add(Bn, elem.child[j], NULL, last_ns).S,
                      buf |-> buf, size |-> Bn.size],
                     elem, j + 1, last_ns)
    ELSE \* child selection node or content match node
         branch_leaf(filter_xpath_buf_add_node(Bn, elem.child[j], NULL, last_ns),
                     buf, Bn.size, elem, j, last_ns)

\* Bc is buf_new after filter_xpath_buf_add_node
branch_leaf(Bc, buf, size, elem, j, last_ns) ==
    IF Bc.size = 0
    THEN branch_loop([S |-> free(Bc.S, Bc.buf), buf |-> buf, size |-> size], elem, j + 1, last_ns)
    ELSE IF Bc.size < 1
    THEN [S |-> free(free(Bc.S, Bc.buf), buf), ret |-> -1, buf |-> buf]
    ELSE branch_stored(op_filter_xpath_add_filter(Bc.S, Bc.buf), buf, size, elem, j, last_ns)

branch_stored(f, buf, size, elem, j, last_ns) ==
    IF f.ret # 0 THEN [S |-> free(f.S, buf), ret |-> -1, buf |-> buf]
    ELSE branch_loop([S |-> f.S, buf |-> buf, size |-> size], elem, j + 1, last_ns)

\* after the first loop
add_after_content(B, elem, last_ns) ==
    IF B.size = 0 THEN [S |-> free(B.S, B.buf), ret |-> 0, buf |-> NullBuf]
    ELSE IF B.size < 1 THEN [S |-> free(B.S, B.buf), ret |-> -1, buf |-> B.buf]
    ELSE IF OnlyContentMatch(elem)
    THEN add_only_content(op_filter_xpath_add_filter(B.S, B.buf), B.buf)
    ELSE branch_loop(B, elem, 1, last_ns)

\* after filter_xpath_buf_add_node for elem itself
add_after_node(B, elem, elem_module_name, last_ns) ==
    IF B.size = 0 THEN [S |-> free(B.S, B.buf), ret |-> 0, buf |-> NullBuf]
    ELSE IF B.size < 1 THEN [S |-> free(B.S, B.buf), ret |-> -1, buf |-> B.buf]
    ELSE add_after_content(content_loop(B, elem, 1, elem_module_name, last_ns), elem, last_ns)

filter_xpath_buf_add(B, elem, elem_module_name, last_ns) ==
    add_after_node(filter_xpath_buf_add_node(B, elem, elem_module_name, last_ns),
                   elem, elem_module_name, last_ns)

(***************************************************************************)
(* The top-level resolver: one iteration of the loop over the top-level    *)
(* elements in op_filter_build_xpath_from_subtree.                         *)
(***************************************************************************)
\* the walk over the modules of the context that collects those with a
\* top-level schema node of the element's name: [S, ret, modules]
\* (variant: the walk ends at the first module found)
RECURSIVE module_iter_FirstOnly(_, _, _, _)
module_iter_FirstOnly(S, next, i, modules) ==
    IF i > Len(Modules) THEN [S |-> S, ret |-> 0, modules |-> modules]
    ELSE IF next.name \notin Modules[i].nodes THEN module_iter_FirstOnly(S, next, i + 1, modules)
    ELSE IF ~AllocOK(S) THEN [S |-> Alloc(S), ret |-> -1, modules |-> modules]
    ELSE [S |-> Alloc(S), ret |-> 0, modules |-> Append(modules, i)]

RECURSIVE module_iter(_, _, _, _)
module_iter(S, next, i, modules) ==
    IF i > Len(Modules) THEN [S |-> S, ret |-> 0, modules |-> modules]
    ELSE IF next.name \notin Modules[i].nodes THEN module_iter(S, next, i + 1, modules)
    ELSE IF ~AllocOK(S) THEN [S |-> Alloc(S), ret |-> -1, modules |-> modules]
    ELSE module_iter(Alloc(S), next, i + 1, Append(modules, i))

\* the candidate modules of a top-level element: [S, ret, modules]
ResolveTop(S, next) ==
    IF next.ns # NoNs /\ next.ns # BaseNs
    THEN IF ~AllocOK(S) THEN [S |-> Alloc(S), ret |-> -1, modules |-> <<>>]
         ELSE [S |-> Alloc(S), ret |-> 0,
               modules |-> IF ly_ctx_get_module_by_ns(next.ns) = 0 THEN <<>>
                           ELSE <<ly_ctx_get_module_by_ns(next.ns)>>]
    ELSE module_iter(S, next, 1, <<>>)

WithBuf(r, buf) == [S |-> r.S, ret |-> r.ret, buf |-> buf]

\* for (i = 0; i < module_count; ++i), R = [S, ret, buf] so far
RECURSIVE compile_loop(_, _, _, _)
compile_loop(R, next, modules, i) ==
    IF R.ret # 0 \/ i > Len(modules) THEN R
    ELSE IF IsContentMatch(next)
    THEN \* special case of top-level content match node
         compile_loop(WithBuf(filter_xpath_buf_add_top_content(R.S, next, Modules[modules[i]].name),
                              R.buf),
                      next, modules, i + 1)
    ELSE \* containment or selection node
         compile_loop(filter_xpath_buf_add([S |-> R.S, buf |-> R.buf, size |-> 1], next,
                                           Modules[modules[i]].name, Modules[modules[i]].ns),
                      next, modules, i + 1)

\* the error label: every stored filter is freed, then the array
RECURSIVE FreeFilters(_, _)
FreeFilters(S, i) ==
    IF i > S.filter_count THEN S
    ELSE FreeFilters(free(S, S.filters[i]), i + 1)

build_done(c) ==
    IF c.ret # 0 THEN [S |-> FreeFilters(c.S, 1), ret |-> -1]
    ELSE [S |-> c.S, ret |-> 0]

build_compile(r, next) ==
    IF r.ret # 0 THEN [S |-> FreeFilters(r.S, 1), ret |-> -1]
    ELSE build_done(compile_loop([S |-> r.S, ret |-> 0, buf |-> NullBuf], next, r.modules, 1))

\* one top-level element: [S, ret]
BuildTop(S, next) == build_compile(ResolveTop(S, next), next)

(***************************************************************************)
(* op_filter_create.                                                       *)
(***************************************************************************)
XPATH == <<"x", "p", "a", "t", "h">>
SUBTREE == <<"s", "u", "b", "t", "r", "e", "e">>
TYPE == <<"t", "y", "p", "e">>
SELECT == <<"s", "e", "l", "e", "c", "t">>

\* index of the first attribute of that name, 0 when there is none
FindAttr(attrs, name) ==
    IF \E j \in DOMAIN attrs : attrs[j].name = name
    THEN CHOOSE j \in DOMAIN attrs :
            attrs[j].name = name /\ \A k \in 1..(j - 1) : attrs[k].name # name
    ELSE 0

\* the scan of the filter node's attributes: [err, attr] with attr the index
\* of the select attribute, 0 for attr == NULL (a subtree filter)
RECURSIVE ScanAttrs(_, _)
ScanAttrs(attrs, i) ==
    IF i > Len(attrs) THEN [err |-> FALSE, attr |-> 0]
    ELSE IF attrs[i].name = TYPE /\ attrs[i].value_str = XPATH
    THEN [err |-> FindAttr(attrs, SELECT) = 0, attr |-> FindAttr(attrs, SELECT)]
    ELSE IF attrs[i].name = TYPE /\ attrs[i].value_str = SUBTREE
    THEN [err |-> FALSE, attr |-> 0]
    ELSE ScanAttrs(attrs, i + 1)

\* lyxml_parse_mem: the element forest of the text, <<>> for the null
\* pointer (a text that is malformed or holds no element)
lyxml_parse_mem(value) == IF value.str = "wellformed" THEN value.xml ELSE <<>>

\* the switch on the value type: can the value be parsed as an XML tree
IsParsable(value) == value.value_type \in {"CONSTSTRING", "STRING", "XML"}

\* subtree_filter, <<>> for the null pointer
SubtreeFilter(value) ==
    IF value.value_type = "XML" THEN value.xml ELSE lyxml_parse_mem(value)

IsEmptyFilter(value) ==
    \/ value.str = "null"
    \/ value.value_type \in {"CONSTSTRING", "STRING"} /\ value.str = "empty"

S0 == [filters |-> filters, filter_count |-> filter_count, heap |-> heap,
       n |-> 0, fail |-> 0, oom |-> oom, exact |-> exact]

Failing(fail) == [S0 EXCEPT !.fail = fail]

\* op_filter_create returns r.ret in state r.S
Return(r) ==
    /\ filters' = r.S.filters
    /\ filter_count' = r.S.filter_count
    /\ heap' = r.S.heap
    /\ oom' = r.S.oom
    /\ exact' = r.S.exact
    /\ ret' = r.ret
    /\ pc' = "done"
    /\ elems' = <<>>
    /\ UNCHANGED <<left, run, first>>

xpath_stored(f, path) ==
    IF f.ret # 0 THEN [S |-> free(f.S, path), ret |-> -1]
    ELSE [S |-> f.S, ret |-> 0]

\* XPathFilter without the test for an empty select
XPathFilter_NoEmptyTest(S, value_str) ==
    IF value_str = NULL THEN [S |-> S, ret |-> 0]
    ELSE IF ~AllocOK(S) THEN [S |-> Alloc(S), ret |-> -1]
    ELSE xpath_stored(
            op_filter_xpath_add_filter(
                NewBuf(Alloc(S)),
                [id |-> Len(S.heap) + 1, s |-> value_str, cap |-> Len(value_str) + 1]),
            [id |-> Len(S.heap) + 1, s |-> value_str, cap |-> Len(value_str) + 1])

\* the xpath branch: a copy of select becomes the only filter
XPathFilter(S, value_str) ==
    IF value_str = NULL \/ value_str = <<>> THEN [S |-> S, ret |-> 0]
    ELSE IF ~AllocOK(S) THEN [S |-> Alloc(S), ret |-> -1]
    ELSE xpath_stored(
            op_filter_xpath_add_filter(
                NewBuf(Alloc(S)),
                [id |-> Len(S.heap) + 1, s |-> value_str, cap |-> Len(value_str) + 1]),
            [id |-> Len(S.heap) + 1, s |-> value_str, cap |-> Len(value_str) + 1])

\* the allocations a call makes when none fails
XPathAllocs(value_str) == XPathFilter(S0, value_str).S.n

CreateXPath ==
    /\ pc = "start"
    /\ ScanAttrs(filter_node.attr, 1).err \/ ScanAttrs(filter_node.attr, 1).attr # 0
    /\ IF ScanAttrs(filter_node.attr, 1).err
       THEN Return([S |-> S0, ret |-> -1])
       ELSE \E fail \in 0..XPathAllocs(filter_node.attr[ScanAttrs(filter_node.attr, 1).attr].value_str) :
                Return(XPathFilter(Failing(fail),
                                   filter_node.attr[ScanAttrs(filter_node.attr, 1).attr].value_str))
    /\ UNCHANGED <<filter_node, filters_freed>>

CreateSubtree ==
    /\ pc = "start"
    /\ ~ScanAttrs(filter_node.attr, 1).err
    /\ ScanAttrs(filter_node.attr, 1).attr = 0
    /\ IF IsEmptyFilter(filter_node.value)
       THEN \* empty filter, fair enough
            Return([S |-> S0, ret |-> 0])
       ELSE IF ~IsParsable(filter_node.value) \/ SubtreeFilter(filter_node.value) = <<>>
       THEN Return([S |-> S0, ret |-> -1])
       ELSE /\ pc' = "build"
            /\ elems' = SubtreeFilter(filter_node.value)
            /\ UNCHANGED <<filters, filter_count, heap, oom, ret, left, run, first, exact>>
    /\ UNCHANGED <<filter_node, filters_freed>>

BuildAllocs(next) == BuildTop(S0, next).S.n

\* (variant: the first loop unlinks the content match children it has folded)
children_left_Unlinked(elem) == SelectSeq(elem.child, LAMBDA c : ~IsContentMatch(c))

\* elem->child after the walk over elem: neither loop unlinks or frees a child
children_left(elem) == elem.child

\* the element as filter_xpath_buf_add leaves it
RECURSIVE elem_left(_)
elem_left(elem) ==
    [elem EXCEPT !.child = [j \in 1..Len(children_left(elem)) |-> elem_left(children_left(elem)[j])]]

\* the outcome b of one iteration of LY_TREE_FOR(elem, next)
BuildStep(b) ==
    /\ filters' = b.S.filters
    /\ filter_count' = b.S.filter_count
    /\ heap' = b.S.heap
    /\ oom' = b.S.oom
    /\ exact' = b.S.exact
    /\ filters_freed' = (b.ret # 0)
    /\ ret' = b.ret
    /\ pc' = IF b.ret # 0 THEN "done" ELSE "build"
    /\ elems' = IF b.ret # 0 THEN <<>> ELSE Tail(elems)
    /\ left' = Append(left, elem_left(Head(elems)))
    /\ UNCHANGED <<run, first>>

\* one top-level element is compiled; an error ends the call with -1
BuildElem ==
    /\ pc = "build"
    /\ elems # <<>>
    /\ \E fail \in 0..BuildAllocs(Head(elems)) : BuildStep(BuildTop(Failing(fail), Head(elems)))
    /\ UNCHANGED filter_node

\* the loop is over: op_filter_build_xpath_from_subtree and the caller return 0
BuildReturn ==
    /\ pc = "build"
    /\ elems = <<>>
    /\ pc' = "done"
    /\ ret' = 0
    /\ UNCHANGED <<filter_node, elems, filters, filter_count, heap, filters_freed, oom,
                   left, run, first, exact>>

\* op_filter_create is called once more on the tree of an XML value, which
\* the first call has not freed, with a new empty filter list
CompileAgain ==
    /\ pc = "done"
    /\ run = 1
    /\ ret = 0
    /\ ~oom
    /\ left # <<>>
    /\ pc' = "build"
    /\ run' = 2
    /\ first' = [i \in 1..Len(filters) |-> filters[i].s]
    /\ elems' = left
    /\ left' = <<>>
    /\ filters' = <<>>
    /\ filter_count' = 0
    /\ heap' = <<>>
    /\ UNCHANGED <<filter_node, filters_freed, oom, ret, exact>>

Next == CreateXPath \/ CreateSubtree \/ BuildElem \/ BuildReturn \/ CompileAgain

(***************************************************************************)
(* The requests the model is run on.                                       *)
(***************************************************************************)
Elem(name, ns, attr, content) ==
    [name |-> name, ns |-> ns, attr |-> attr, child |-> <<>>, content |-> content]

Attr(type, name, ns, value) == [type |-> type, name |-> name, ns |-> ns, value |-> value]

Names == {<<"a">>, <<"b", "c">>, <<"d">>}
Namespaces == {NoNs, BaseNs, "ns1", "ns2", "nsX"}
Contents == {NULL, <<" ">>, <<"v">>, <<" ", "o", "'", "k", "\n">>, <<"q", "\"">>}

AttrKinds ==
    { Attr("STD", <<"x">>, "ns1", <<"1">>),
      Attr("STD", <<"y", "z">>, "ns2", <<"2", "'">>),
      Attr("STD", <<"x">>, NoNs, <<"1">>),
      Attr("STD", <<"x">>, "nsX", <<"1">>),
      Attr("NS", <<"x">>, "ns1", <<"1">>) }

RECURSIVE SeqsOf(_, _)
SeqsOf(A, n) ==
    IF n = 0 THEN {<<>>}
    ELSE {<<>>} \cup {<<a>> \o s : a \in A, s \in SeqsOf(A, n - 1)}

\* forests of exactly n elements labelled from L
RECURSIVE ForestsOf(_, _)
RECURSIVE TreesOf(_, _)
ForestsOf(L, n) ==
    IF n = 0 THEN {<<>>}
    ELSE UNION {{<<t>> \o f : t \in TreesOf(L, k), f \in ForestsOf(L, n - k)} : k \in 1..n}

TreesOf(L, k) == {[l EXCEPT !.child = c] : l \in L, c \in ForestsOf(L, k - 1)}

ForestsUpTo(L, n) == UNION {ForestsOf(L, k) : k \in 1..n}

Labels ==
    { Elem(<<"a">>, NoNs, <<>>, NULL),
      Elem(<<"a">>, "ns1", <<>>, NULL),
      Elem(<<"b", "c">>, "ns2", <<>>, NULL),
      Elem(<<"a">>, "nsX", <<>>, NULL),
      Elem(<<"a">>, "ns1", <<>>, <<"v">>),
      Elem(<<"b", "c">>, "ns2", <<>>, <<" ", "o", "'", "k", "\n">>),
      Elem(<<"a">>, "nsX", <<>>, <<"v">>),
      Elem(<<"b", "c">>, NoNs, <<Attr("STD", <<"x">>, "ns1", <<"1">>)>>, NULL) }

SmallLabels ==
    { Elem(<<"a">>, "ns1", <<>>, NULL),
      Elem(<<"b", "c">>, "ns1", <<>>, <<"v">>),
      Elem(<<"a">>, "ns2", <<>>, NULL) }

\* single top-level elements, every combination
LeafForests ==
    { <<Elem(name, ns, attr, content)>> :
        name \in Names, ns \in Namespaces, attr \in SeqsOf(AttrKinds, MaxAttrs),
        content \in Contents }

\* a root in ns1 with one child, every combination for the child
ParentForests ==
    { <<[Elem(<<"a">>, "ns1", rattr, NULL) EXCEPT !.child = <<Elem(name, ns, attr, content)>>]>> :
        rattr \in {<<>>, <<Attr("STD", <<"x">>, "ns1", <<"1">>)>>},
        name \in {<<"b", "c">>}, ns \in Namespaces, attr \in SeqsOf(AttrKinds, MaxAttrs),
        content \in Contents }

SubtreeForests ==
    ForestsUpTo(Labels, MaxNodes) \cup ForestsUpTo(SmallLabels, MaxNodes + 1)
        \cup LeafForests \cup ParentForests

SubtreeRequests ==
    { [attr |-> <<[name |-> TYPE, value_str |-> SUBTREE]>>,
       value |-> [value_type |-> "XML", str |-> "tree", xml |-> f]] : f \in SubtreeForests }

ReqAttrKinds ==
    { [name |-> TYPE, value_str |-> XPATH],
      [name |-> TYPE, value_str |-> SUBTREE],
      [name |-> TYPE, value_str |-> <<"/", "a">>],
      [name |-> SELECT, value_str |-> NULL],
      [name |-> SELECT, value_str |-> <<>>],
      [name |-> SELECT, value_str |-> <<"/", "a">>] }

SmallForest == <<Elem(<<"a">>, "ns1", <<>>, NULL)>>

AnyValues ==
    { [value_type |-> vt, str |-> k, xml |-> IF k = "wellformed" THEN SmallForest ELSE <<>>] :
        vt \in {"CONSTSTRING", "STRING"},
        k \in {"null", "empty", "whitespace", "malformed", "wellformed"} }
    \cup { [value_type |-> vt, str |-> k, xml |-> IF k = "tree" /\ vt = "XML" THEN SmallForest ELSE <<>>] :
        vt \in {"XML", "DATATREE"}, k \in {"null", "tree"} }

DispatchRequests ==
    { [attr |-> a, value |-> v] : a \in SeqsOf(ReqAttrKinds, MaxReqAttrs), v \in AnyValues }

Requests == SubtreeRequests \cup DispatchRequests

Init ==
    /\ filter_node \in Requests
    /\ pc = "start"
    /\ elems = <<>>
    /\ filters = <<>>
    /\ filter_count = 0
    /\ heap = <<>>
    /\ filters_freed = FALSE
    /\ oom = FALSE
    /\ ret = 0
    /\ left = <<>>
    /\ run = 1
    /\ first = <<>>
    /\ exact = TRUE

Spec == Init /\ [][Next]_vars

(***************************************************************************)
(* What the properties below talk about.                                   *)
(***************************************************************************)
Done == pc = "done"

\* the strings of the filter list
Strs == [i \in 1..Len(filters) |-> filters[i].s]

\* the request is of the subtree type / of the xpath type: the first type
\* attribute that says xpath or subtree decides, none means subtree
Decides(a) == a.name = TYPE /\ a.value_str \in {XPATH, SUBTREE}

IsXPathRequest ==
    \E i \in DOMAIN filter_node.attr :
        /\ filter_node.attr[i].name = TYPE
        /\ filter_node.attr[i].value_str = XPATH
        /\ \A k \in 1..(i - 1) : ~Decides(filter_node.attr[k])

IsSubtreeRequest == ~IsXPathRequest

HasSelect == \E j \in DOMAIN filter_node.attr : filter_node.attr[j].name = SELECT

\* the value of the select attribute
SelectValue ==
    filter_node.attr[CHOOSE j \in DOMAIN filter_node.attr :
        /\ filter_node.attr[j].name = SELECT
        /\ \A k \in 1..(j - 1) : filter_node.attr[k].name # SELECT].value_str

\* the request carries a filter tree and the compiler has gone through it
Forest == filter_node.value.xml

Compiled ==
    /\ Done
    /\ IsSubtreeRequest
    /\ ~IsEmptyFilter(filter_node.value)
    /\ IsParsable(filter_node.value)
    /\ Forest # <<>>

\* compiled, no allocation failed
CompiledOK == Compiled /\ ~oom

(***************************************************************************)
(* C1: if an allocation fails during the compilation of a subtree filter,  *)
(* at the top level or at any depth of the walk, op_filter_create returns  *)
(* an error: a call that returns success never had an allocation failure.  *)
(***************************************************************************)
C1_SuccessMeansNoAllocFailure == (Compiled /\ ret = 0) => ~oom

(***************************************************************************)
(* C5: a subtree-type request whose payload is empty or only whitespace    *)
(* makes op_filter_create return success with an empty filter list.        *)
(***************************************************************************)
IsBlankPayload ==
    /\ filter_node.value.value_type \in {"CONSTSTRING", "STRING"}
    /\ filter_node.value.str \in {"empty", "whitespace"}

C5_BlankPayloadIsSuccess ==
    (Done /\ IsSubtreeRequest /\ IsBlankPayload) => (ret = 0 /\ filter_count = 0 /\ filters = <<>>)

(***************************************************************************)
(* C6: for an xpath-type request, when no allocation fails: without a      *)
(* select attribute op_filter_create returns an error and adds nothing;    *)
(* with an empty select it returns success with an empty filter list; with *)
(* a non-empty select it returns success having appended exactly one       *)
(* filter, a verbatim copy of the select value.                            *)
(***************************************************************************)
C6_XPathSelect ==
    (Done /\ IsXPathRequest /\ ~oom) =>
        IF ~HasSelect THEN ret = -1 /\ filters = <<>> /\ filter_count = 0
        ELSE IF SelectValue \in {<<>>, NULL} THEN ret = 0 /\ filters = <<>> /\ filter_count = 0
        ELSE ret = 0 /\ Strs = <<SelectValue>> /\ filter_count = 1

C6_Witness ==
    /\ Done /\ IsXPathRequest /\ ~oom /\ HasSelect
    /\ SelectValue = <<"/", "a">>
    /\ Len(filter_node.attr) = 2
    /\ filter_node.attr[1].name = SELECT
    /\ Strs = <<SelectValue>>

(***************************************************************************)
(* The XPath text the specification prescribes, written down directly.     *)
(***************************************************************************)
RECURSIVE Concat(_)
Concat(ss) == IF ss = <<>> THEN <<>> ELSE Head(ss) \o Concat(Tail(ss))

IsPrefix(p, s) == Len(p) <= Len(s) /\ SubSeq(s, 1, Len(p)) = p

Contains(s, sub) ==
    \E k \in 0..(Len(s) - Len(sub)) : SubSeq(s, k + 1, k + Len(sub)) = sub

KnownNs == {Modules[i].ns : i \in DOMAIN Modules}

ModuleName(ns) == Modules[CHOOSE i \in DOMAIN Modules : Modules[i].ns = ns].name

\* the content between its first and its last character that is no space
Trimmed(content) ==
    LET idx == {k \in DOMAIN content : content[k] \notin {" ", "\n", "\t"}}
    IN IF idx = {} THEN <<>>
       ELSE SubSeq(content, CHOOSE k \in idx : \A l \in idx : k <= l,
                            CHOOSE k \in idx : \A l \in idx : k >= l)

HasChar(s, c) == \E k \in DOMAIN s : s[k] = c

\* the literal of a content: in double quotes when it holds a single quote
RefLiteral(content) ==
    IF HasChar(Trimmed(content), "'")
    THEN <<"\"">> \o Trimmed(content) \o <<"\"">>
    ELSE <<"'">> \o Trimmed(content) \o <<"'">>

RefAttrPred(a) ==
    IF a.type = "STD" /\ a.ns \in KnownNs
    THEN <<"[", "@">> \o ModuleName(a.ns) \o <<":">> \o a.name
            \o <<"=", "'">> \o a.value \o <<"'", "]">>
    ELSE <<>>

RefAttrPreds(attr) == Concat([i \in DOMAIN attr |-> RefAttrPred(attr[i])])

\* the modules a top-level element stands for, in iteration order
RECURSIVE ModulesFrom(_, _)
ModulesFrom(e, i) ==
    IF i > Len(Modules) THEN <<>>
    ELSE (IF (IF e.ns \in {NoNs, BaseNs} THEN e.name \in Modules[i].nodes
              ELSE Modules[i].ns = e.ns)
          THEN <<i>> ELSE <<>>) \o ModulesFrom(e, i + 1)

RootModules(e) == ModulesFrom(e, 1)

\* a name below the root: qualified unless the namespace is none, the base
\* one or the one last used for qualification
Resolvable(e, last_ns) == e.ns \in ({NoNs, BaseNs, last_ns} \cup KnownNs)

RefName(e, last_ns) ==
    IF e.ns \in {NoNs, BaseNs, last_ns} THEN e.name
    ELSE ModuleName(e.ns) \o <<":">> \o e.name

RefRootStep(m, e) ==
    <<"/">> \o Modules[m].name \o <<":">> \o e.name \o RefAttrPreds(e.attr)

RefStep(e, last_ns) == <<"/">> \o RefName(e, last_ns) \o RefAttrPreds(e.attr)

\* the predicate of a content match node, its name written as name
RefPred(name, e) ==
    <<"[">> \o name \o RefAttrPreds(e.attr) \o <<"=">> \o RefLiteral(e.content) \o <<"]">>

\* a single top-level element that stands for exactly one module
OneRoot == Len(Forest) = 1 /\ Len(RootModules(Forest[1])) = 1

Root == Forest[1]
RootModule == RootModules(Root)[1]
RootNs == Modules[RootModule].ns

(***************************************************************************)
(* C7: the literal of every content match node, a top-level one or one     *)
(* folded into a predicate, is in double quotes when the trimmed content   *)
(* holds a single quote and in single quotes when it holds no quote.       *)
(***************************************************************************)
QuoteRuleApplies(e) ==
    IsContentMatch(e) /\ (HasChar(e.content, "'") \/ ~HasChar(e.content, "\""))

C7_LiteralQuoting ==
    (CompiledOK /\ ret = 0 /\ OneRoot) =>
        /\ QuoteRuleApplies(Root) =>
             \A i \in DOMAIN Strs : Contains(Strs[i], <<"=">> \o RefLiteral(Root.content))
        /\ \A j \in DOMAIN Root.child :
             QuoteRuleApplies(Root.child[j]) =>
                \A i \in DOMAIN Strs :
                    Contains(Strs[i], <<"=">> \o RefLiteral(Root.child[j].content))

(***************************************************************************)
(* C8 as stated: a root that stands for exactly one module and has only    *)
(* content match leaves gives exactly one string, of the form              *)
(* /module:root[text()='value'] followed by the root's attribute           *)
(* predicates.                                                             *)
(***************************************************************************)
OnlyLeavesShape ==
    /\ CompiledOK /\ ret = 0 /\ OneRoot
    /\ Root.child # <<>>
    /\ \A j \in DOMAIN Root.child : IsContentMatch(Root.child[j])

LeavesInRootNs == \A j \in DOMAIN Root.child : Root.child[j].ns \in {NoNs, RootNs}

C10_PredicatesRightAfterName ==
    (CompiledOK /\ ret = 0 /\ OneRoot) =>
        \A i \in DOMAIN Strs : IsPrefix(RefRootStep(RootModule, Root), Strs[i])

(***************************************************************************)
(* C10 amended: the same for every element rendered as a step other than a *)
(* top-level content match node; for a top-level content match node the    *)
(* attribute predicates follow the [text()=...] predicate.                 *)
(***************************************************************************)
IsSelection(e) == e.child = <<>> /\ ~IsContentMatch(e)

TopContentForms(m, e) ==
    {<<"/">> \o Modules[m].name \o <<":">> \o e.name
        \o <<"[", "t", "e", "x", "t", "(", ")", "=">> \o lit \o <<"]">> \o RefAttrPreds(e.attr) :
     lit \in {RefLiteral(e.content), <<"'">> \o Trimmed(e.content) \o <<"'">>}}

C10_AttributePredicates ==
    (CompiledOK /\ ret = 0 /\ OneRoot) =>
        /\ ~IsContentMatch(Root) =>
              \A i \in DOMAIN Strs : IsPrefix(RefRootStep(RootModule, Root), Strs[i])
        /\ IsContentMatch(Root) =>
              Len(filters) = 1 /\ Strs[1] \in TopContentForms(RootModule, Root)
        /\ IsSelection(Root) => Strs = <<RefRootStep(RootModule, Root)>>
        /\ (Len(Root.child) = 1 /\ IsSelection(Root.child[1]) /\ Resolvable(Root.child[1], RootNs)) =>
              Strs = <<RefRootStep(RootModule, Root) \o RefStep(Root.child[1], RootNs)>>
        /\ (Len(Root.child) = 1 /\ IsContentMatch(Root.child[1])) =>
              /\ Len(filters) = 1
              /\ IsPrefix(RefRootStep(RootModule, Root) \o <<"[">>, Strs[1])

C10_Witness ==
    /\ CompiledOK /\ ret = 0 /\ OneRoot
    /\ Len(Root.child) = 1 /\ IsSelection(Root.child[1])
    /\ Len(Root.attr) = 1 /\ RefAttrPreds(Root.attr) # <<>>
    /\ Len(Root.child[1].attr) = 2
    /\ RefAttrPred(Root.child[1].attr[1]) # <<>>
    /\ RefAttrPred(Root.child[1].attr[2]) # <<>>
    /\ Root.child[1].attr[1] # Root.child[1].attr[2]
    /\ Len(filters) = 1

(***************************************************************************)
(* C2: a resolvable containment node with k children that are no content   *)
(* match nodes (each a resolvable selection leaf or a containment node     *)
(* with only content match children) and any number of content match      *)
(* children gives exactly k strings, all starting with the path up to the  *)
(* node's step with its content match predicates.  Here for the only child *)
(* X of the root.                                                          *)
(***************************************************************************)
X == Root.child[1]

IsBranch(c) ==
    /\ ~IsContentMatch(c)
    /\ Resolvable(c, RootNs)
    /\ \A g \in DOMAIN c.child : IsContentMatch(c.child[g]) /\ Resolvable(c.child[g], RootNs)

IsFolded(c) == IsContentMatch(c) /\ Resolvable(c, RootNs)

BranchCount(e) == Cardinality({j \in DOMAIN e.child : IsBranch(e.child[j])})

BranchingShape ==
    /\ CompiledOK /\ ret = 0 /\ OneRoot
    /\ Len(Root.child) = 1 /\ X.child # <<>> /\ Resolvable(X, RootNs)
    /\ \A j \in DOMAIN X.child : IsBranch(X.child[j]) \/ IsFolded(X.child[j])
    /\ BranchCount(X) >= 1

\* the predicates of the content match children of e, in document order
FoldedPreds(e) ==
    Concat([j \in DOMAIN e.child |->
                IF IsContentMatch(e.child[j])
                THEN RefPred(RefName(e.child[j], RootNs), e.child[j]) ELSE <<>>])

C2_OneStringPerBranch ==
    BranchingShape =>
        /\ Len(filters) = BranchCount(X)
        /\ \A i \in DOMAIN Strs :
              IsPrefix(RefRootStep(RootModule, Root) \o RefStep(X, RootNs) \o FoldedPreds(X), Strs[i])

(***************************************************************************)
(* C4: a single root in the namespace of a known module, descendants in    *)
(* the same namespace, containment nodes nested to any depth and content   *)
(* match leaves at the bottom give exactly one string: /module:root, then  *)
(* /name per nested containment node, then [name='value'] per leaf.        *)
(***************************************************************************)
RECURSIVE ChainOK(_)
ChainOK(e) ==
    /\ e.ns = RootNs /\ e.attr = <<>> /\ e.child # <<>>
    /\ \/ \A j \in DOMAIN e.child :
             /\ IsContentMatch(e.child[j])
             /\ e.child[j].ns = RootNs /\ e.child[j].attr = <<>>
       \/ Len(e.child) = 1 /\ e.child[1].child # <<>> /\ ChainOK(e.child[1])

RECURSIVE ChainTail(_)
ChainTail(e) ==
    IF e.child[1].child # <<>>
    THEN <<"/">> \o e.child[1].name \o ChainTail(e.child[1])
    ELSE Concat([j \in DOMAIN e.child |-> RefPred(e.child[j].name, e.child[j])])

ChainShape ==
    /\ CompiledOK /\ ret = 0
    /\ Len(Forest) = 1 /\ Root.ns \in KnownNs /\ ChainOK(Root)

C4_NestedContainment ==
    ChainShape =>
        Strs = << <<"/">> \o Modules[RootModule].name \o <<":">> \o Root.name \o ChainTail(Root) >>

(***************************************************************************)
(* C3 as stated: a top-level element without namespace (or with the base   *)
(* one) whose name is a top-level node of N modules is compiled once per   *)
(* module, in iteration order: the output is N groups of strings that      *)
(* differ only in the module name qualifying the root step.  Here for      *)
(* roots without content match children.                                   *)
(***************************************************************************)
Rest(s, n) == SubSeq(s, n + 1, Len(s))

FanCount == Len(RootModules(Root))

FanShape ==
    /\ CompiledOK /\ ret = 0
    /\ Len(Forest) = 1 /\ Root.ns \in {NoNs, BaseNs} /\ FanCount >= 1

\* the root step of the i-th module, without attribute predicates
FanStep(i) == <<"/">> \o Modules[RootModules(Root)[i]].name \o <<":">> \o Root.name

GroupSize == Len(filters) \div FanCount

\* the k-th string of the i-th group
GroupStr(i, k) == Strs[(i - 1) * GroupSize + k]

C3_GroupsDifferInRootModuleOnly ==
    (FanShape /\ \A j \in DOMAIN Root.child : ~IsContentMatch(Root.child[j])) =>
        /\ Len(filters) % FanCount = 0
        /\ \A i \in 1..FanCount : \A k \in 1..GroupSize :
              /\ IsPrefix(FanStep(i), GroupStr(i, k))
              /\ Rest(GroupStr(i, k), Len(FanStep(i))) = Rest(GroupStr(1, k), Len(FanStep(1)))

(***************************************************************************)
(* C3 amended: the output is N groups of strings, one group per module in  *)
(* iteration order and no module twice; every string of the i-th group     *)
(* starts with the root step qualified by the i-th module, the groups have *)
(* the same number of strings, and corresponding strings are the same up   *)
(* to the module names that qualify names in them.                         *)
(***************************************************************************)
\* a string without its qualifiers (no name or value of the requests holds
\* a character of a module name or a colon)
Unqualified(s) == SelectSeq(s, LAMBDA c : c \notin {"m", "n", ":"})

C3_OneGroupPerModule ==
    FanShape =>
        /\ Len(filters) % FanCount = 0
        /\ \A i, j \in 1..FanCount : RootModules(Root)[i] = RootModules(Root)[j] => i = j
        /\ \A i \in 1..FanCount : \A k \in 1..GroupSize :
              /\ IsPrefix(FanStep(i), GroupStr(i, k))
              /\ Unqualified(GroupStr(i, k)) = Unqualified(GroupStr(1, k))

C3_Witness ==
    /\ FanShape /\ FanCount = 2
    /\ Len(Root.child) = 2
    /\ Len(filters) = 4
    /\ Strs[1] # Strs[2]

(***************************************************************************)
(* C9: without an allocation failure, names that cannot be resolved are no *)
(* error: op_filter_build_xpath_from_subtree returns success, a top-level  *)
(* element with an unknown namespace or a name of no module gives no       *)
(* string and leaves the strings of the other top-level elements as they   *)
(* are without it, and a nested element with an unknown namespace gives no *)
(* string for its branch.                                                  *)
(***************************************************************************)
EmptyList ==
    [S |-> [filters |-> <<>>, filter_count |-> 0, heap |-> <<>>, n |-> 0, fail |-> 0, oom |-> FALSE,
             exact |-> TRUE],
     ret |-> 0]

\* the compilation of a forest, element by element, no allocation failing
RECURSIVE CompileForest(_, _, _)
CompileForest(r, forest, i) ==
    IF i > Len(forest) \/ r.ret # 0 THEN r
    ELSE CompileForest(BuildTop([r.S EXCEPT !.n = 0], forest[i]), forest, i + 1)

StrsOf(r) == [i \in 1..Len(r.S.filters) |-> r.S.filters[i].s]

HasModule(e) == RootModules(e) # <<>>

C9_UnresolvableIsSilent ==
    CompiledOK =>
        /\ ret = 0
        /\ Strs = StrsOf(CompileForest(EmptyList, SelectSeq(Forest, HasModule), 1))
        /\ (OneRoot /\ Len(Root.child) = 1 /\ X.child = <<>> /\ ~Resolvable(X, RootNs)) =>
              filters = <<>>

ConsumedOnce(b) ==
    IF ret = 0 THEN b.stored + b.freed = 1
    ELSE b.freed = 1 /\ b.stored <= 1

C12_BuffersConsumedOnce ==
    Compiled => \A id \in DOMAIN heap : ConsumedOnce(heap[id])

(***************************************************************************)
(* C13: in every string each element name denotes the module of the        *)
(* element's own namespace: it is unprefixed only when the element has no  *)
(* namespace, the base one or that of the nearest enclosing element on the *)
(* path, and otherwise prefixed with the module of its own namespace, at   *)
(* every depth.  Here for a root in the namespace of a module above a path *)
(* of only children; a prefix that repeats the enclosing module is taken   *)
(* as denoting the same.                                                   *)
(***************************************************************************)
\* the ways to write the name of c below an element of namespace ns
NamesDenoting(c, ns) ==
    IF c.ns \in {NoNs, BaseNs, ns}
    THEN {c.name, ModuleName(ns) \o <<":">> \o c.name}
    ELSE {ModuleName(c.ns) \o <<":">> \o c.name}

\* the namespace in force below c
EnclosingNs(c, ns) == IF c.ns \in {NoNs, BaseNs} THEN ns ELSE c.ns

RECURSIVE IsLinear(_)
IsLinear(e) ==
    /\ Len(e.child) = 1
    /\ e.child[1].ns \in KnownNs \cup {NoNs, BaseNs}
    /\ e.child[1].child = <<>> \/ IsLinear(e.child[1])

\* what may follow the step of e, e in namespace ns
RECURSIVE TailsDenoting(_, _)
TailsDenoting(e, ns) ==
    IF e.child[1].child # <<>>
    THEN {<<"/">> \o n \o RefAttrPreds(e.child[1].attr) \o tl :
            n \in NamesDenoting(e.child[1], ns),
            tl \in TailsDenoting(e.child[1], EnclosingNs(e.child[1], ns))}
    ELSE IF IsContentMatch(e.child[1])
    THEN {RefPred(n, e.child[1]) : n \in NamesDenoting(e.child[1], ns)}
    ELSE {<<"/">> \o n \o RefAttrPreds(e.child[1].attr) : n \in NamesDenoting(e.child[1], ns)}

LinearShape ==
    /\ CompiledOK /\ ret = 0
    /\ Len(Forest) = 1 /\ Root.ns \in KnownNs /\ IsLinear(Root)

C13_NamesDenoteOwnModule ==
    LinearShape =>
        /\ Len(filters) = 1
        /\ Strs[1] \in {RefRootStep(RootModule, Root) \o tl : tl \in TailsDenoting(Root, RootNs)}

(***************************************************************************)
(* C14: the strings are in the order of a depth-first walk in document     *)
(* order: those of top-level element i before those of element i + 1, and  *)
(* within a containment node those of an earlier child before those of a   *)
(* later one.  The second part for a root that stands for one module above *)
(* elements of its own namespace or of none, whose content match nodes are *)
(* the only children of their parent and lie below the root's children.    *)
(***************************************************************************)
\* the strings of one top-level element compiled alone
StrsOfElem(e) == StrsOf(CompileForest(EmptyList, <<e>>, 1))

InRootNs(e) == e.ns \in {NoNs, BaseNs, RootNs}

RECURSIVE IsOrdered(_)
IsOrdered(e) ==
    /\ InRootNs(e)
    /\ ~IsContentMatch(e)
    /\ \/ e.child # <<>> /\ \A j \in DOMAIN e.child : IsContentMatch(e.child[j]) /\ InRootNs(e.child[j])
       \/ \A j \in DOMAIN e.child : IsOrdered(e.child[j])

\* the strings of the walk below e in document order, path the text up to e's step
RECURSIVE StrsInOrder(_, _)
StrsInOrder(e, path) ==
    IF e.child = <<>> THEN <<path>>
    ELSE IF IsContentMatch(e.child[1])
    THEN <<path \o Concat([j \in DOMAIN e.child |-> RefPred(e.child[j].name, e.child[j])])>>
    ELSE Concat([j \in DOMAIN e.child |->
                    StrsInOrder(e.child[j], path \o RefStep(e.child[j], RootNs))])

OrderedShape ==
    /\ CompiledOK /\ ret = 0 /\ OneRoot
    /\ Root.child # <<>>
    /\ \A j \in DOMAIN Root.child : IsOrdered(Root.child[j])

C15_SizeIsLengthPlusOne == exact

C15_Witness ==
    /\ exact
    /\ CompiledOK /\ ret = 0 /\ OneRoot
    /\ Len(Root.child) = 2 /\ Root.attr # <<>>
    /\ IsContentMatch(Root.child[1])
    /\ Len(filters) = 2
    /\ \A i \in DOMAIN filters : ~HasChar(Strs[i], "?")

=============================================================================
